---- MODULE Spec2Model ----
(***************************************************************************)
(* WebDAW core engine (src/script.js): the look-ahead step scheduler, the  *)
(* channel voices it issues, the channel rack and the piano roll.          *)
(*                                                                         *)
(* Time is counted in clock ticks of 1/TicksPerSec second, so that every   *)
(* duration the program computes for the tempi used here is a whole number *)
(* of ticks; the arithmetic is exact (the rounding of IEEE doubles is not  *)
(* modelled).  A JavaScript number that may be NaN or Infinity is a record *)
(* [k |-> "num" | "inf" | "nan", v |-> Int].                               *)
(***************************************************************************)
EXTENDS Integers, Sequences, FiniteSets, TLC

VARIABLES
    ctxState,              \* DAW.ctx.state: "suspended" | "running"
    now,                   \* DAW.ctx.currentTime, in ticks
    isPlaying,             \* DAW.isPlaying
    tempo,                 \* DAW.tempo (a JavaScript number)
    currentStep,           \* DAW.currentStep
    nextNoteTime,          \* DAW.nextNoteTime (a JavaScript number)
    timerID,               \* TRUE while the setTimeout of DAW.timerID is pending
    channels,              \* DAW.channels
    mixerTracks,           \* DAW.mixerTracks
    selectedChannelIndex,  \* DAW.selectedChannelIndex (0-based)
    hung,                  \* TRUE once a handler has entered a loop that never exits
    timers,                \* number of pending setTimeout callbacks of the scheduler
    microtasks,            \* the promise reactions queued and not yet run
    \* ---- observation of what the handlers have issued (history) ----
    runs,                  \* number of Starts that took effect
    runStart,              \* audio-clock time of the last such Start
    runCount,              \* step events emitted since the last such Start
    runFixed,              \* the tempo has not been edited since the last such Start
    rackStable,            \* no step flag has been toggled since the last such Start
    rollStable,            \* no piano-roll note has been toggled since the last such Start
    hits,                  \* per channel: step hits issued since the last such Start
    hitTimes,              \* per channel: timestamps of its last two step hits of the run
    rollHits,              \* per channel: piano-roll notes played since the last such Start
    emitted,               \* the step events of the last handler that emitted any
    issued,                \* the playNote calls made for those events
    lastEvent,             \* the step event emitted just before those of `emitted`
    midiIssued,            \* the playNote call of the last MIDI NoteOn
    idle,                  \* clock time since the last call of the scheduler, up to IdleCap
    runPositive,           \* the tempo was positive at every such call since the last Start
    metered,               \* the mixer tracks as the last meter frame found them
    editLog,               \* the last two pattern edits, each with the pattern before it
    decoded,               \* the outcomes of the decodes that are over, oldest first
    edits                  \* number of pattern, tempo and fader edits made

vars == << ctxState, now, isPlaying, tempo, currentStep, nextNoteTime, timerID,
           channels, mixerTracks, selectedChannelIndex, hung, runs, runStart,
           runCount, runFixed, rackStable, rollStable, hits, hitTimes, rollHits,
           emitted, issued, lastEvent, midiIssued, edits, timers, idle,
           runPositive, metered, editLog, microtasks, decoded >>

engine == << ctxState, now, isPlaying, tempo, currentStep, nextNoteTime, timerID,
             channels, mixerTracks, selectedChannelIndex, hung, timers >>

\* what only the meter frame and the edit wrappers write
passive == << metered, editLog >>

\* what only the sample import writes
imports == << microtasks, decoded >>

(***************************************************************************)
(* Bounds of the model                                                     *)
(***************************************************************************)
\* the audio clock is followed for MaxTicks clock quanta
MaxTicks == 2
\* at most MaxRuns Starts take effect
MaxRuns == 2
\* at most MaxEdits edits of the pattern and the tempo while the clock runs freely
MaxEdits == 1
\* a run prepared beforehand is followed for LoopTicks clock quanta
LoopTicks == 4
\* at most MaxTraced logged pattern edits
MaxTraced == 4
\* the channel list grows to at most MaxChannels channels, and at most
\* MaxImports decodes of dropped files come to an end
MaxChannels == 17
MaxImports == 1
\* at most MaxMoves fader moves
MaxMoves == 2
\* while samples are imported the channel list grows to at most MaxRows rows
MaxRows == 6
\* a handler's loop is followed for at most MaxLoop iterations; one that has not
\* left its loop by then never does (every loop that ends within the clock
\* bound ends in fewer iterations)
MaxLoop == 40

(***************************************************************************)
(* Program constants                                                       *)
(***************************************************************************)
TicksPerSec == 40 * 130
DefaultTempo == 130
StepCount == 16
StepArrayLen == 16
TrackCount == 17
RateScale == 64 * 64
VelScale == 127
\* DAW.scheduleAheadTime = 0.1 s and DAW.lookahead = 25 ms
ScheduleAheadTime == TicksPerSec \div 10
Lookahead == TicksPerSec \div 40
\* the 0.5 s of a procedural sample buffer
ProceduralLen == TicksPerSec \div 2
\* playNote's fixed arguments: step hit 0.1 s, MIDI note 0.5 s
HitDuration == TicksPerSec \div 10
MidiDuration == TicksPerSec \div 2
\* synth envelope: attack 0.01, decay 0.1, release 0.2, stop margin 0.1
Attack == TicksPerSec \div 100
Decay == TicksPerSec \div 10
Release == TicksPerSec \div 5
StopMargin == TicksPerSec \div 10

\* the audio clock is observed in quanta of four look-ahead intervals (0.1 s)
ClockQuantum == 4 * Lookahead
\* the time since the last scheduler call is told apart up to two windows
IdleCap == 2 * ScheduleAheadTime
MaxClock == MaxTicks * ClockQuantum
LoopClock == LoopTicks * ClockQuantum

(***************************************************************************)
(* JavaScript numbers                                                      *)
(***************************************************************************)
Num(v) == [k |-> "num", v |-> v]
PosInf == [k |-> "inf", v |-> 0]
NaN == [k |-> "nan", v |-> 0]

\* a + b  (no negative infinity arises in this program)
Add(a, b) ==
    IF a.k = "nan" \/ b.k = "nan" THEN NaN
    ELSE IF a.k = "inf" \/ b.k = "inf" THEN PosInf
    ELSE Num(a.v + b.v)

\* a < b  (false whenever an operand is NaN)
Lt(a, b) ==
    IF a.k = "nan" \/ b.k = "nan" THEN FALSE
    ELSE IF a.k = "inf" THEN FALSE
    ELSE IF b.k = "inf" THEN TRUE
    ELSE a.v < b.v

\* x > 0
Positive(t) == t.k = "num" /\ t.v > 0

\* n * x for a whole number n >= 1
Scale(n, x) == IF x.k = "num" THEN Num(n * x.v) ELSE x

Abs(x) == IF x < 0 THEN -x ELSE x

Last(s) == s[Len(s)]

RECURSIVE Pow2(_)
Pow2(n) == IF n <= 0 THEN 1 ELSE 2 * Pow2(n - 1)

(***************************************************************************)
(* parseInt on the text of the tempo field, a sequence of characters       *)
(***************************************************************************)
Digits == <<"0", "1", "2", "3", "4", "5", "6", "7", "8", "9">>
IsDigit(c) == \E d \in 1..10 : Digits[d] = c
DigitVal(c) == (CHOOSE d \in 1..10 : Digits[d] = c) - 1

RECURSIVE ParseDigits(_, _, _)
ParseDigits(s, i, acc) ==
    IF i > Len(s) \/ ~IsDigit(s[i]) THEN acc
    ELSE ParseDigits(s, i + 1, 10 * acc + DigitVal(s[i]))

ParseInt(s) ==
    LET neg == Len(s) >= 1 /\ s[1] = "-"
        first == IF Len(s) >= 1 /\ s[1] \in {"-", "+"} THEN 2 ELSE 1
    IN  IF first > Len(s) \/ ~IsDigit(s[first]) THEN NaN
        ELSE LET m == ParseDigits(s, first, 0)
             IN  Num(IF neg THEN -m ELSE m)

(***************************************************************************)
(* Mixer tracks and channels                                               *)
(***************************************************************************)
\* a track wired to the track before it instead of the master
MixerTrackChained(index, tracks) ==
    [index |-> index, volume |-> 80, gain |-> 100, pan |-> 0,
     output |-> index - 1]

\* new MixerTrack(index) while DAW.mixerTracks is `tracks`: the stored volume is
\* 0.8, the gain node is created with the Web Audio default gain 1.0 (both in
\* percent); output is where the analyser is connected: the position in
\* DAW.mixerTracks of the track whose input it feeds, -1 for DAW.masterGain
\* (which feeds ctx.destination)
MixerTrack(index, tracks) ==
    [index |-> index, volume |-> 80, gain |-> 100, pan |-> 0,
     output |-> IF index > 0 THEN (IF Len(tracks) >= 1 THEN 0 ELSE -1) ELSE -1]

\* the loop of AudioEngine.init that pushes tracks 0 .. n-1
RECURSIVE SetupMixerTracks(_)
SetupMixerTracks(n) ==
    IF n = 0 THEN << >>
    ELSE LET tracks == SetupMixerTracks(n - 1)
         IN  Append(tracks, MixerTrack(n - 1, tracks))

\* a setVolume that forgets the stored value
SetVolumeGainOnly(track, val) == [track EXCEPT !.gain = val]

\* MixerTrack.setVolume(val) on a track
SetVolume(track, val) == [track EXCEPT !.gain = val, !.volume = val]

\* the fader's clamp Math.max(0, Math.min(1, val)), in percent
Clamp(val) == IF val < 0 THEN 0 ELSE IF val > 100 THEN 100 ELSE val

\* a route that does not wrap around the insert tracks
AutoRouteUnwrapped(id) == id + 1

\* the "auto route" of the Channel constructor: (id % 16) + 1
AutoRoute(id) == (id % 16) + 1

\* new Channel(id, name, type), buffer 0 standing for null
Channel(id, name, type) ==
    [id |-> id, name |-> name, type |-> type, buffer |-> 0,
     volume |-> 80, pan |-> 0, pitch |-> 0,
     targetMixerTrack |-> AutoRoute(id),
     steps |-> [i \in 0..(StepArrayLen - 1) |-> FALSE],
     pianoRollNotes |-> <<>>]

\* ProceduralAudio.generate(type): the buffer is created with 0.5 s for every
\* preset (the hat only fills its first 0.1 s)
Generate(sampleKey) == ProceduralLen

\* AudioEngine.createChannel(name, type, sampleKey) on a channel list
CreateChannel(chs, name, type, sampleKey) ==
    LET ch == Channel(Len(chs), name, type)
    IN  Append(chs, IF type = "sampler" /\ sampleKey # "null"
                    THEN [ch EXCEPT !.buffer = Generate(sampleKey)]
                    ELSE ch)

\* FileLoader.loadSample's decode callback on a channel list:
\* createChannel(name, 'sampler', null), then ch.buffer = buffer
ImportedChannel(chs, buffer) ==
    LET created == CreateChannel(chs, "import", "sampler", "null")
    IN  [created EXCEPT ![Len(created)].buffer = buffer]

\* the imported channels of a channel list
Imported(chs) == {i \in DOMAIN chs : chs[i].name = "import"}

\* round(RateScale * 2^(r/12)) for r = 0..11
SemitoneTable ==
    <<4096, 4340, 4598, 4871, 5161, 5468, 5793, 6137, 6502, 6889, 7298, 7732>>

\* Math.pow(2, e / 12), in units of 1/RateScale
PowSemitones(e) ==
    LET q == e \div 12
        r == e % 12
    IN  IF q >= 0 THEN SemitoneTable[r + 1] * Pow2(q)
        ELSE SemitoneTable[r + 1] \div Pow2(-q)

NoVoice ==
    [kind |-> "none", error |-> "none", dest |-> 0, start |-> NaN, stop |-> NaN,
     rate |-> 0, gain |-> 0, attackEnd |-> NaN, decayEnd |-> NaN, releaseAt |-> NaN,
     releaseEnd |-> NaN]

\* a sampler voice stopped at the end of the note instead of the buffer
SamplerVoiceGated(c, dest, time, duration, pitch, velocity) ==
    [NoVoice EXCEPT
        !.kind = "sampler", !.dest = dest,
        !.rate = PowSemitones(c.pitch + (pitch - 60)),
        !.gain = c.volume * velocity,
        !.start = time,
        !.stop = Add(time, duration)]

\* the sampler branch of Channel.playNote
SamplerVoice(c, dest, time, duration, pitch, velocity) ==
    LET playbackRate == PowSemitones(c.pitch + (pitch - 60))
    IN  [NoVoice EXCEPT
            !.kind = "sampler", !.dest = dest, !.rate = playbackRate,
            !.gain = c.volume * velocity,
            !.start = time,
            !.stop = Add(time, Num((c.buffer * RateScale) \div playbackRate))]

\* the synth branch of Channel.playNote
SynthVoice(c, dest, time, duration, pitch, velocity) ==
    LET stopTime == Add(time, duration)
    IN  [NoVoice EXCEPT
            !.kind = "synth", !.dest = dest, !.rate = PowSemitones(pitch - 69),
            !.gain = c.volume * velocity,
            !.start = time,
            !.attackEnd = Add(time, Num(Attack)),
            !.decayEnd = Add(time, Num(Attack + Decay)),
            !.releaseAt = stopTime,
            !.releaseEnd = Add(stopTime, Num(Release)),
            !.stop = Add(stopTime, Num(Release + StopMargin))]

\* Channel.playNote(time, duration, pitch, velocity): the voice it issues, or
\* NoVoice when it does nothing.  dest is the mixer track whose input the voice
\* feeds, -1 when it falls back to DAW.masterGain.
PlayNote(c, tracks, time, duration, pitch, velocity) ==
    LET dest == IF c.targetMixerTrack < Len(tracks) THEN c.targetMixerTrack ELSE -1
    IN  IF c.type = "sampler" /\ c.buffer # 0
        THEN SamplerVoice(c, dest, time, duration, pitch, velocity)
        ELSE IF c.type = "synth"
        THEN SynthVoice(c, dest, time, duration, pitch, velocity)
        ELSE NoVoice

\* one playNote call: its receiver, its caller, its arguments and its outcome
Call(i, src, run, ev, step, time, duration, pitch, velocity) ==
    [ch |-> i, src |-> src, run |-> run, ev |-> ev, step |-> step,
     time |-> time, duration |-> duration, pitch |-> pitch,
     velocity |-> velocity,
     voice |-> PlayNote(channels[i], mixerTracks, time, duration, pitch, velocity)]

(***************************************************************************)
(* Sequencer                                                               *)
(***************************************************************************)
\* 0.25 * (60.0 / DAW.tempo), the advance of nextStep
StepDur(t) ==
    IF t.k = "nan" THEN NaN
    ELSE IF t.v = 0 THEN PosInf
    ELSE Num((15 * TicksPerSec) \div t.v)

\* a quarter note instead of a sixteenth
NoteUnitQuarter(t) ==
    IF t.k = "nan" THEN NaN
    ELSE IF t.v = 0 THEN PosInf
    ELSE Num((60 * TicksPerSec) \div t.v)

\* 60 / DAW.tempo / 4, the factor of a piano-roll note's duration
NoteUnit(t) ==
    IF t.k = "nan" THEN NaN
    ELSE IF t.v = 0 THEN PosInf
    ELSE Num(((60 * TicksPerSec) \div t.v) \div 4)

\* the test of scheduleNote on a piano-roll note: |start - step| < 0.01
NoteDue(note, stepNumber) == Abs(note.start - stepNumber) * 100 < 1

\* the flag of the step after the one being scheduled
StepDueAhead(c, stepNumber) ==
    (stepNumber + 1) \in DOMAIN c.steps /\ c.steps[stepNumber + 1]

\* the test of scheduleNote on a channel's step flag
StepDue(c, stepNumber) == stepNumber \in DOMAIN c.steps /\ c.steps[stepNumber]

\* the body of DAW.channels.forEach in scheduleNote, for channel i
ChannelCalls(i, run, ev, stepNumber, time) ==
    LET c == channels[i]
        Due(n) == NoteDue(n, stepNumber)
        due == SelectSeq(c.pianoRollNotes, Due)
        hit == IF StepDue(c, stepNumber)
               THEN << Call(i, "step", run, ev, stepNumber, time,
                            Num(HitDuration), 60, VelScale) >>
               ELSE << >>
        roll == [j \in 1..Len(due) |->
                    Call(i, "roll", run, ev, stepNumber, time,
                         Scale(due[j].duration, NoteUnit(tempo)),
                         due[j].pitch, due[j].velocity)]
    IN  hit \o roll

RECURSIVE CallsFrom(_, _, _, _, _)
CallsFrom(i, run, ev, stepNumber, time) ==
    IF i > Len(channels) THEN << >>
    ELSE ChannelCalls(i, run, ev, stepNumber, time)
         \o CallsFrom(i + 1, run, ev, stepNumber, time)

\* Sequencer.scheduleNote(stepNumber, time): the playNote calls it makes
ScheduleNote(run, ev, stepNumber, time) == CallsFrom(1, run, ev, stepNumber, time)

\* nextStep wrapping one step late
NextStepLateWrap(st) ==
    [st EXCEPT !.next = Add(st.next, StepDur(tempo)),
               !.step = IF st.step + 1 > StepCount THEN 0 ELSE st.step + 1,
               !.count = st.count + 1]

\* nextStep timing the next step from the clock instead of the last step
NextStepDrift(st) ==
    [st EXCEPT !.next = Add(Num(now + ScheduleAheadTime), StepDur(tempo)),
               !.step = IF st.step + 1 = StepCount THEN 0 ELSE st.step + 1,
               !.count = st.count + 1]

\* Sequencer.nextStep on the scheduler's position
NextStep(st) ==
    [st EXCEPT !.next = Add(st.next, StepDur(tempo)),
               !.step = IF st.step + 1 = StepCount THEN 0 ELSE st.step + 1,
               !.count = st.count + 1]

\* a loop that forgets to look ahead
LoopCondNoLookahead(next) == Lt(next, Num(now))

\* the condition of the scheduler's while loop
LoopCond(next) == Lt(next, Num(now + ScheduleAheadTime))

\* the step event handed to scheduleNote
Event(st, run) ==
    [run |-> run, k |-> st.count, step |-> st.step, time |-> st.next,
     tempo |-> tempo, at |-> now, idle |-> idle]


\* the while loop of Sequencer.scheduler from position st
RECURSIVE SchedulerLoop(_, _, _)
SchedulerLoop(st, run, fuel) ==
    IF ~LoopCond(st.next) THEN st
    ELSE IF fuel = 0 THEN [st EXCEPT !.hung = TRUE]
    ELSE SchedulerLoop(
            NextStep([st EXCEPT
                        !.evs = Append(st.evs, Event(st, run)),
                        !.calls = st.calls \o ScheduleNote(run, st.count, st.step, st.next)]),
            run, fuel - 1)

\* Sequencer.scheduler(): the loop, from the given cursor
Scheduler(step, next, count, run) ==
    SchedulerLoop([step |-> step, next |-> next, count |-> count,
                   evs |-> << >>, calls |-> << >>, hung |-> FALSE], run, MaxLoop)

\* whether the scheduler re-arms its timer when the loop is over
Rearm(playing) == playing

\* a start without its guard
StartReturnsNever == FALSE

\* the guard of Sequencer.start: if (DAW.isPlaying) return
StartReturns == isPlaying

\* a start that keeps the cursor of the run before
StartCursorStale == [step |-> currentStep, next |-> nextNoteTime]

\* what Sequencer.start writes before it calls the scheduler
StartCursor == [step |-> 0, next |-> Num(now)]

\* a stop that leaves the timer pending
StopEffectNoClear ==
    [isPlaying |-> FALSE, timerID |-> timerID, currentStep |-> currentStep,
     nextNoteTime |-> nextNoteTime]

\* a stop that rewinds the cursor
StopEffectRewind ==
    [isPlaying |-> FALSE, timerID |-> FALSE, currentStep |-> 0,
     nextNoteTime |-> nextNoteTime]

\* what Sequencer.stop leaves of the transport
StopEffect ==
    [isPlaying |-> FALSE, timerID |-> FALSE, currentStep |-> currentStep,
     nextNoteTime |-> nextNoteTime]

\* the document's one-shot click listener, and Sequencer.start's own resume
Resume == ctxState' = "running"

(***************************************************************************)
(* Observation of the issued events and calls                              *)
(***************************************************************************)
CallsOf(calls, i, src) ==
    LET Is(c) == c.ch = i /\ c.src = src IN SelectSeq(calls, Is)

LastTwo(s) == IF Len(s) <= 2 THEN s ELSE SubSeq(s, Len(s) - 1, Len(s))

\* record the outcome r of a scheduler call, newRun telling a Start from a tick
Observe(r, newRun) ==
    LET baseHits == IF newRun THEN [i \in DOMAIN hits |-> 0] ELSE hits
        baseTimes == IF newRun THEN [i \in DOMAIN hitTimes |-> << >>] ELSE hitTimes
        baseRoll == IF newRun THEN [i \in DOMAIN rollHits |-> 0] ELSE rollHits
    IN  /\ runCount' = r.count
        /\ idle' = 0
        /\ runPositive' = ((newRun \/ runPositive) /\ Positive(tempo))
        /\ hits' = [i \in DOMAIN hits |-> baseHits[i] + Len(CallsOf(r.calls, i, "step"))]
        /\ hitTimes' = [i \in DOMAIN hitTimes |->
                          LastTwo(baseTimes[i] \o
                                  [j \in 1..Len(CallsOf(r.calls, i, "step")) |->
                                      CallsOf(r.calls, i, "step")[j].time])]
        /\ rollHits' = [i \in DOMAIN rollHits |->
                          baseRoll[i] + Len(CallsOf(r.calls, i, "roll"))]
        /\ IF r.evs = << >>
           THEN UNCHANGED << emitted, issued, lastEvent >>
           ELSE /\ emitted' = r.evs
                /\ issued' = r.calls
                \* the idle time is kept for the events of the last batch only
                /\ lastEvent' = IF emitted = << >> THEN lastEvent
                                ELSE << [Last(emitted) EXCEPT !.idle = 0] >>

(***************************************************************************)
(* Handlers                                                                *)
(***************************************************************************)
\* Sequencer.start (the play button)
Start ==
    /\ ~hung
    /\ IF StartReturns THEN UNCHANGED vars
       ELSE /\ runs < MaxRuns
            /\ LET r == Scheduler(StartCursor.step, StartCursor.next, 0, runs + 1)
               IN  /\ Resume
                   /\ isPlaying' = TRUE
                   /\ currentStep' = r.step
                   /\ nextNoteTime' = r.next
                   /\ hung' = r.hung
                   /\ timerID' = IF r.hung THEN timerID ELSE Rearm(TRUE)
                   /\ timers' = IF ~r.hung /\ Rearm(TRUE) THEN timers + 1 ELSE timers
                   /\ runs' = runs + 1
                   /\ runStart' = now
                   /\ runFixed' = TRUE
                   /\ rackStable' = TRUE
                   /\ rollStable' = TRUE
                   /\ Observe(r, TRUE)
            /\ UNCHANGED << now, tempo, channels, mixerTracks, selectedChannelIndex,
                            midiIssued, edits, passive, imports >>

\* Sequencer.stop (the stop button)
Stop ==
    /\ ~hung
    /\ isPlaying' = StopEffect.isPlaying
    /\ timerID' = StopEffect.timerID
    /\ currentStep' = StopEffect.currentStep
    /\ nextNoteTime' = StopEffect.nextNoteTime
    /\ timers' = IF timerID /\ ~StopEffect.timerID THEN timers - 1 ELSE timers
    /\ Resume
    /\ UNCHANGED << now, tempo, channels, mixerTracks, selectedChannelIndex, hung,
                    runs, runStart, runCount, runFixed, rackStable, rollStable,
                    hits, hitTimes, rollHits, emitted, issued, lastEvent,
                    midiIssued, edits, idle, runPositive, passive, imports >>

\* a timer callback: Sequencer.scheduler.  own tells whether the timeout that
\* fires is the one whose handle DAW.timerID holds.
Tick ==
    /\ ~hung
    /\ timers > 0
    /\ \E own \in BOOLEAN :
          /\ own => timerID
          /\ ~own => timers > (IF timerID THEN 1 ELSE 0)
          /\ LET r == Scheduler(currentStep, nextNoteTime, runCount, runs)
                 rearm == ~r.hung /\ Rearm(isPlaying)
             IN  /\ currentStep' = r.step
                 /\ nextNoteTime' = r.next
                 /\ hung' = r.hung
                 /\ timerID' = (rearm \/ (timerID /\ ~own))
                 /\ timers' = IF rearm THEN timers ELSE timers - 1
                 /\ Observe(r, FALSE)
    /\ UNCHANGED << ctxState, now, isPlaying, tempo, channels, mixerTracks,
                    selectedChannelIndex, runs, runStart, runFixed, rackStable,
                    rollStable, midiIssued, edits, passive, imports >>

\* the audio clock advances by one quantum, up to limit
Advance(limit) ==
    /\ ~hung
    /\ ctxState = "running"
    /\ now + ClockQuantum <= limit
    /\ now' = now + ClockQuantum
    /\ idle' = IF idle + ClockQuantum > IdleCap THEN IdleCap ELSE idle + ClockQuantum
    /\ UNCHANGED << ctxState, isPlaying, tempo, currentStep, nextNoteTime, timerID,
                    channels, mixerTracks, selectedChannelIndex, hung, runs,
                    runStart, runCount, runFixed, rackStable, rollStable, hits,
                    hitTimes, rollHits, emitted, issued, lastEvent, midiIssued,
                    edits, timers, runPositive, passive, imports >>

\* a click that sets the flag instead of inverting it
StepClickSets(chs, i, s) == [chs EXCEPT ![i].steps[s] = TRUE]

\* ch.steps[i] = !ch.steps[i] on the channel list: channel i (1-based), step s
StepClick(chs, i, s) == [chs EXCEPT ![i].steps[s] = ~chs[i].steps[s]]

\* step.onclick of the channel rack: channel i (1-based), step s
ToggleStep(i, s) ==
    /\ ~hung
    /\ i \in DOMAIN channels
    /\ s \in 0..(StepCount - 1)
    /\ channels' = StepClick(channels, i, s)
    /\ rackStable' = FALSE
    /\ UNCHANGED << ctxState, now, isPlaying, tempo, currentStep, nextNoteTime,
                    timerID, mixerTracks, selectedChannelIndex, hung, runs,
                    runStart, runCount, runFixed, rollStable, hits, hitTimes,
                    rollHits, emitted, issued, lastEvent, midiIssued, timers,
                    idle, runPositive, metered, imports >>

\* row.onclick of the channel rack: select channel idx (0-based)
SelectChannel(idx) ==
    /\ ~hung
    /\ selectedChannelIndex' = idx
    /\ Resume
    /\ UNCHANGED << now, isPlaying, tempo, currentStep, nextNoteTime, timerID,
                    channels, mixerTracks, hung, runs, runStart, runCount, runFixed,
                    rackStable, rollStable, hits, hitTimes, rollHits, emitted,
                    issued, lastEvent, midiIssued, edits, timers, idle,
                    runPositive, passive, imports >>

\* a toggle that looks for the start only, whatever the pitch
ToggleNoteAnyPitch(notes, step, pitch) ==
    LET Same(j) == Abs(notes[j].start - step) * 10 < 1
        found == {j \in 1..Len(notes) : Same(j)}
    IN  IF found # {}
        THEN LET existingIdx == CHOOSE j \in found : \A m \in found : j <= m
             IN  SubSeq(notes, 1, existingIdx - 1)
                 \o SubSeq(notes, existingIdx + 1, Len(notes))
        ELSE Append(notes, [start |-> step, duration |-> 1, pitch |-> pitch,
                            velocity |-> VelScale])

\* the toggle of PianoRoll.handleInput on a note list
ToggleNote(notes, step, pitch) ==
    LET Same(j) == notes[j].pitch = pitch /\ Abs(notes[j].start - step) * 10 < 1
        found == {j \in 1..Len(notes) : Same(j)}
    IN  IF found # {}
        THEN LET existingIdx == CHOOSE j \in found : \A m \in found : j <= m
             IN  SubSeq(notes, 1, existingIdx - 1)
                 \o SubSeq(notes, existingIdx + 1, Len(notes))
        ELSE Append(notes, [start |-> step, duration |-> 1, pitch |-> pitch,
                            velocity |-> VelScale])

\* PianoRoll.handleInput: a mouse press in grid cell (step, pitch)
HandleInput(step, pitch) ==
    /\ ~hung
    /\ selectedChannelIndex + 1 \in DOMAIN channels
    /\ channels' = [channels EXCEPT ![selectedChannelIndex + 1].pianoRollNotes =
                        ToggleNote(@, step, pitch)]
    /\ rollStable' = FALSE
    /\ UNCHANGED << ctxState, now, isPlaying, tempo, currentStep, nextNoteTime,
                    timerID, mixerTracks, selectedChannelIndex, hung, runs,
                    runStart, runCount, runFixed, rackStable, hits, hitTimes,
                    rollHits, emitted, issued, lastEvent, midiIssued, timers,
                    idle, runPositive, metered, imports >>

\* the per-channel counters f of the observation, grown to the channel list chs
Grown(f, chs, zero) == [i \in DOMAIN chs |-> IF i \in DOMAIN f THEN f[i] ELSE zero]

\* add-channel-btn onclick: AudioEngine.createChannel('New Synth', 'synth')
AddChannel ==
    /\ ~hung
    /\ Len(channels) < MaxChannels
    /\ channels' = CreateChannel(channels, "New Synth", "synth", "null")
    /\ hits' = Grown(hits, channels', 0)
    /\ hitTimes' = Grown(hitTimes, channels', << >>)
    /\ rollHits' = Grown(rollHits, channels', 0)
    /\ Resume
    /\ UNCHANGED << now, isPlaying, tempo, currentStep, nextNoteTime, timerID,
                    mixerTracks, selectedChannelIndex, hung, runs, runStart,
                    runCount, runFixed, rackStable, rollStable, emitted, issued,
                    lastEvent, midiIssued, edits, timers, idle, runPositive,
                    passive, imports >>

\* a file dropped on the drop zone, when its decoding is over: on success the
\* callback of decodeAudioData, which creates the channel without a buffer and
\* queues the promise reaction that assigns it; on failure no callback at all
LoadSample(ok, buffer) ==
    /\ ~hung
    /\ Len(decoded) < MaxImports
    /\ decoded' = Append(decoded, ok)
    /\ IF ~ok THEN UNCHANGED << engine, microtasks, hits, hitTimes, rollHits >>
       ELSE /\ Len(channels) < MaxChannels
            /\ channels' = CreateChannel(channels, "import", "sampler", "null")
            /\ microtasks' = Append(microtasks,
                                    [ch |-> Len(channels'), buffer |-> buffer])
            /\ hits' = Grown(hits, channels', 0)
            /\ hitTimes' = Grown(hitTimes, channels', << >>)
            /\ rollHits' = Grown(rollHits, channels', 0)
            /\ UNCHANGED << ctxState, now, isPlaying, tempo, currentStep,
                            nextNoteTime, timerID, mixerTracks,
                            selectedChannelIndex, hung, timers >>
    /\ UNCHANGED << runs, runStart, runCount, runFixed, rackStable, rollStable,
                    emitted, issued, lastEvent, midiIssued, edits, idle,
                    runPositive, passive >>

\* the promise reaction of loadSample, ch => { ch.buffer = buffer; ... }
AssignBuffer ==
    /\ ~hung
    /\ microtasks # << >>
    /\ channels' = [channels EXCEPT ![Head(microtasks).ch].buffer =
                                        Head(microtasks).buffer]
    /\ microtasks' = Tail(microtasks)
    /\ UNCHANGED << ctxState, now, isPlaying, tempo, currentStep, nextNoteTime,
                    timerID, mixerTracks, selectedChannelIndex, hung, runs,
                    runStart, runCount, runFixed, rackStable, rollStable, hits,
                    hitTimes, rollHits, emitted, issued, lastEvent, midiIssued,
                    edits, timers, idle, runPositive, passive, decoded >>

\* the fader of mixer strip i (0-based) dragged to val percent of its height:
\* the mousemove handler calls track.setVolume with the clamped value
MoveFader(i, val) ==
    /\ ~hung
    /\ i + 1 \in DOMAIN mixerTracks
    /\ mixerTracks' = [mixerTracks EXCEPT ![i + 1] = SetVolume(@, Clamp(val))]
    /\ UNCHANGED << ctxState, now, isPlaying, tempo, currentStep, nextNoteTime,
                    timerID, channels, selectedChannelIndex, hung, runs, runStart,
                    runCount, runFixed, rackStable, rollStable, hits, hitTimes,
                    rollHits, emitted, issued, lastEvent, midiIssued, timers,
                    idle, runPositive, metered, imports >>

\* a frame of animateMeters: while playing it reads every track's analyser,
\* which taps the signal behind the gain stage
AnimateMeters ==
    /\ ~hung
    /\ IF ~isPlaying THEN UNCHANGED vars
       ELSE /\ metered' = mixerTracks
            /\ UNCHANGED << ctxState, now, isPlaying, tempo, currentStep,
                            nextNoteTime, timerID, channels, mixerTracks,
                            selectedChannelIndex, hung, runs, runStart, runCount,
                            runFixed, rackStable, rollStable, hits, hitTimes,
                            rollHits, emitted, issued, lastEvent, midiIssued,
                            edits, timers, idle, runPositive, editLog,
                            imports >>

\* bpm-input onchange with the field's text
SetTempo(text) ==
    /\ ~hung
    /\ tempo' = ParseInt(text)
    /\ runFixed' = (runFixed /\ tempo' = tempo)
    /\ UNCHANGED << ctxState, now, isPlaying, currentStep, nextNoteTime, timerID,
                    channels, mixerTracks, selectedChannelIndex, hung, runs,
                    runStart, runCount, rackStable, rollStable, hits, hitTimes,
                    rollHits, emitted, issued, lastEvent, midiIssued, timers,
                    idle, runPositive, metered, imports >>

\* input.onmidimessage with data [cmd, note, vel]
MidiMessage(cmd, note, vel) ==
    /\ ~hung
    /\ IF cmd = 144 /\ vel > 0 /\ selectedChannelIndex + 1 \in DOMAIN channels
       THEN midiIssued' = << Call(selectedChannelIndex + 1, "midi", runs, -1, -1,
                                  Num(now), Num(MidiDuration), note, vel) >>
       ELSE UNCHANGED midiIssued
    /\ UNCHANGED << ctxState, now, isPlaying, tempo, currentStep, nextNoteTime,
                    timerID, channels, mixerTracks, selectedChannelIndex, hung, runs,
                    runStart, runCount, runFixed, rackStable, rollStable, hits,
                    hitTimes, rollHits, emitted, issued, lastEvent, edits, timers,
                    idle, runPositive, passive, imports >>

(***************************************************************************)
(* The environment: which inputs arrive, and how many                      *)
(***************************************************************************)
\* an event loop that starts a callback whatever reactions are still queued
DrainedOrNot == TRUE

\* the reaction of a promise that is already fulfilled is a microtask: it runs
\* when the callback that queued it returns, before any other callback starts
Drained == microtasks = << >>

\* a callback of the event loop (a timer, a click, a MIDI message, a decode)
Task(A) == Drained /\ A

\* an edit made at any moment, counted against MaxEdits
Edit(A) == edits < MaxEdits /\ edits' = edits + 1 /\ UNCHANGED editLog /\ A
\* an edit made while the pattern is prepared, before the first Start
Setup(A) == runs = 0 /\ now = 0 /\ UNCHANGED << edits, editLog >> /\ A
\* a fader move, counted against MaxMoves
Moved(A) == edits < MaxMoves /\ edits' = edits + 1 /\ UNCHANGED editLog /\ A
\* a pattern edit that is logged: what was clicked (op, the channel row or the
\* selected channel, the cell) and the channel list before it
Traced(op, ch, cell, A) ==
    /\ edits < MaxTraced
    /\ edits' = edits + 1
    /\ editLog' = LastTwo(Append(editLog, [op |-> op, ch |-> ch, cell |-> cell,
                                           before |-> channels]))
    /\ A

\* the rack cells, piano-roll cells, tempo texts and MIDI data that arrive
RackChannels == {1, 4}
RackSteps == {0, 4, 8, 12}
RollSteps == {0, 16}
TempoTexts == { <<"6", "0", "0">>, <<"0">>, <<"-", "1", "3", "0">>, <<"a">> }
FastTempo == <<"6", "0", "0">>
MidiData ==
    { <<144, 60, 127>>, <<144, 72, 64>>, <<144, 67, 127>>, <<144, 48, 127>>,
      <<144, 60, 0>>, <<128, 60, 0>> }

(***************************************************************************)
(* The engine after the load event: AudioEngine.init and UIManager.init    *)
(***************************************************************************)
DefaultChannels ==
    CreateChannel(
      CreateChannel(
        CreateChannel(
          CreateChannel(<< >>, "Kick", "sampler", "kick"),
          "Snare", "sampler", "snare"),
        "Hat", "sampler", "hat"),
      "Lead", "synth", "null")

InitWith(chs) ==
    /\ ctxState = "suspended"
    /\ now = 0
    /\ isPlaying = FALSE
    /\ tempo = Num(DefaultTempo)
    /\ currentStep = 0
    /\ nextNoteTime = Num(0)
    /\ timerID = FALSE
    /\ channels = chs
    /\ mixerTracks = SetupMixerTracks(TrackCount)
    /\ selectedChannelIndex = 0
    /\ hung = FALSE
    /\ runs = 0
    /\ runStart = 0
    /\ runCount = 0
    /\ runFixed = TRUE
    /\ rackStable = TRUE
    /\ rollStable = TRUE
    /\ hits = [i \in 1..Len(chs) |-> 0]
    /\ hitTimes = [i \in 1..Len(chs) |-> << >>]
    /\ rollHits = [i \in 1..Len(chs) |-> 0]
    /\ emitted = << >>
    /\ issued = << >>
    /\ lastEvent = << >>
    /\ midiIssued = << >>
    /\ edits = 0
    /\ timers = 0
    /\ idle = 0
    /\ runPositive = TRUE
    /\ metered = << >>
    /\ editLog = << >>
    /\ microtasks = << >>
    /\ decoded = << >>

Init == InitWith(DefaultChannels)

\* the transport and the pattern editors, at any moment
Next ==
    \/ Start
    \/ Stop
    \/ Tick
    \/ Advance(MaxClock)
    \/ \E i \in RackChannels : Edit(ToggleStep(i, 1))
    \/ \E idx \in {0, 3} : SelectChannel(idx)
    \/ Edit(HandleInput(0, 60))
    \/ \E text \in {FastTempo, << "a" >>} : Edit(SetTempo(text))

Spec == Init /\ [][Next]_vars

\* the transport under tempo edits
NextTransport ==
    \/ Start
    \/ Stop
    \/ Tick
    \/ Advance(LoopClock)
    \/ \E text \in TempoTexts : Edit(SetTempo(text))

SpecTransport == Init /\ [][NextTransport]_vars

\* a rack pattern and a tempo prepared, then played
NextRack ==
    \/ Start
    \/ Stop
    \/ Tick
    \/ Advance(LoopClock)
    \/ \E s \in RackSteps : Setup(ToggleStep(1, s))
    \/ Setup(ToggleStep(4, 0))
    \/ Setup(SetTempo(FastTempo))

SpecRack == Init /\ [][NextRack]_vars

\* piano-roll notes and a tempo prepared, then played
NextRoll ==
    \/ Start
    \/ Stop
    \/ Tick
    \/ Advance(LoopClock)
    \/ \E idx \in {0, 3} : Setup(SelectChannel(idx))
    \/ \E step \in {4, 16} : Setup(HandleInput(step, 60))
    \/ Setup(SetTempo(FastTempo))

SpecRoll == Init /\ [][NextRoll]_vars

\* the buffers of an imported sampler channel: none yet, 0.5 s, 0.25 s
ImportBuffers == {0, TicksPerSec \div 2, TicksPerSec \div 4}

\* the pattern editors alone, each click logged
PatternRows == {1, 4}
PatternSteps == {0, 15}
PatternPitches == {60, 72}

NextPattern ==
    \/ \E i \in PatternRows, s \in PatternSteps :
          Traced("step", i, << s >>, ToggleStep(i, s))
    \/ \E step \in RollSteps, pitch \in PatternPitches :
          Traced("note", selectedChannelIndex + 1, << step, pitch >>,
                 HandleInput(step, pitch))
    \/ \E idx \in {0, 3} : SelectChannel(idx)

SpecPattern == Init /\ [][NextPattern]_vars

\* the mixer: faders moved and meters drawn while the transport runs
FaderStrips == {0, 16}
FaderValues == {-10, 50, 120}

NextMixer ==
    \/ Start
    \/ Stop
    \/ Tick
    \/ Advance(MaxClock)
    \/ \E i \in FaderStrips, val \in FaderValues : Moved(MoveFader(i, val))
    \/ AnimateMeters
    \/ Setup(ToggleStep(1, 0))

SpecMixer == Init /\ [][NextMixer]_vars

\* the channel list growing, the first and the newest rows played
NextChannels ==
    \/ Task(AddChannel)
    \/ \E ok \in BOOLEAN, buffer \in ImportBuffers \ {0} :
          Task(LoadSample(ok, buffer))
    \/ AssignBuffer
    \/ \E idx \in {0, MaxChannels - 1} :
          idx < Len(channels) /\ Task(SelectChannel(idx))
    \/ \E i \in {4, MaxChannels} : Task(Setup(ToggleStep(i, 0)))
    \/ Task(MidiMessage(144, 60, 127))
    \/ Task(Start)

SpecChannels == Init /\ [][NextChannels]_vars

\* samples imported and a channel added while the transport runs; the rows
\* below the default channels are played on step 1
ImportRows == {5, 6}

NextImport ==
    \/ Task(Start)
    \/ Task(Stop)
    \/ Task(Tick)
    \/ Advance(MaxClock)
    \/ Len(channels) < MaxRows /\ Task(AddChannel)
    \/ \E ok \in BOOLEAN :
          Len(channels) < MaxRows /\ Task(LoadSample(ok, TicksPerSec \div 2))
    \/ AssignBuffer
    \/ \E i \in ImportRows : Task(Edit(ToggleStep(i, 1)))

SpecImport == Init /\ [][NextImport]_vars

\* Channel.playNote on its own: beside the default channels, a sampler channel
\* as createChannel(name, 'sampler', null) leaves it (no buffer) or with a
\* decoded buffer of 0.5 s or 0.25 s; MIDI notes play the selected channel
InitPlayNote ==
    \E buffer \in ImportBuffers : InitWith(ImportedChannel(DefaultChannels, buffer))

NextPlayNote ==
    \/ \E d \in MidiData : MidiMessage(d[1], d[2], d[3])
    \/ \E idx \in 0..(Len(channels) - 1) : SelectChannel(idx)
    \/ Advance(MaxClock)

SpecPlayNote == InitPlayNote /\ [][NextPlayNote]_vars

(***************************************************************************)
(* Properties                                                              *)
(***************************************************************************)
\* C1: within one Playing run at a fixed tempo T > 0, whatever the delays
\* between ticks, the k-th emitted step event is for step k mod StepCount and
\* carries timestamp t0 + k * (0.25 * 60 / T), t0 the clock at Start; the
\* events are numbered without gap or repetition.
C1_StepSequence ==
    (runFixed /\ Positive(tempo) /\ emitted # << >> /\ Last(emitted).run = runs) =>
        /\ Last(emitted).k = runCount - 1
        /\ \A j \in 1..Len(emitted) :
              LET e == emitted[j]
              IN  /\ e.k = runCount - 1 - (Len(emitted) - j)
                  /\ e.step = e.k % StepCount
                  /\ e.time = Num(runStart + e.k * StepDur(tempo).v)
        /\ \/ emitted[1].k = 0
           \/ /\ lastEvent # << >>
              /\ lastEvent[1].run = runs
              /\ lastEvent[1].k = emitted[1].k - 1
              /\ lastEvent[1].step = lastEvent[1].k % StepCount
              /\ lastEvent[1].time = Num(runStart + lastEvent[1].k * StepDur(tempo).v)

\* C1 witness: a run at a fixed tempo has wrapped past step 15 in a tick that
\* came late enough to emit more than one quantum's steps at once
C1_Witness ==
    /\ runFixed /\ Positive(tempo) /\ emitted # << >> /\ Last(emitted).run = runs
    /\ Len(emitted) > 4
    /\ \E j \in 1..Len(emitted) : emitted[j].k = StepCount /\ emitted[j].step = 0

\* C3: a Start that takes effect enters Playing, and the first event it emits
\* is for step 0 with the audio-clock time of the Start as its timestamp.
C3_StartResets ==
    [][ (runs' # runs) =>
            /\ isPlaying'
            /\ emitted' # << >>
            /\ emitted'[1].run = runs'
            /\ emitted'[1].k = 0
            /\ emitted'[1].step = 0
            /\ emitted'[1].time = Num(now)
            /\ runStart' = now ]_vars

\* C3 witness: a second Start, later on the clock, after a run that had
\* advanced past step 0
C3_Witness ==
    /\ runs = 2 /\ isPlaying /\ runStart > 0
    /\ emitted # << >> /\ emitted[1].run = 2 /\ emitted[1].step = 0
    /\ emitted[1].time = Num(runStart)
    /\ lastEvent # << >> /\ lastEvent[1].run = 1 /\ lastEvent[1].step > 0

\* C4: once stopped, no timer is pending, and until the next Start no tick
\* runs and no step event is emitted, whatever the clock does.
C4_StopSilences ==
    [][ /\ (~isPlaying' => ~timerID')
        /\ (~isPlaying /\ ~isPlaying') =>
              UNCHANGED << emitted, issued, runCount, currentStep, nextNoteTime >>
      ]_vars

\* C4 witness: stopped, the clock has moved on since the last emission and
\* the next step is within the look-ahead window, yet nothing is pending
C4_Witness ==
    /\ runs >= 1 /\ ~isPlaying /\ ~timerID
    /\ emitted # << >> /\ now > Last(emitted).at
    /\ LoopCond(nextNoteTime)

\* C5: Stop retracts nothing: the issued voices, with their start and stop
\* timestamps, and currentStep, nextNoteTime, tempo, channels and patterns are
\* as they were before the Stop.
C5_StopFrame ==
    [][ (isPlaying /\ ~isPlaying') =>
            UNCHANGED << emitted, issued, midiIssued, currentStep, nextNoteTime,
                         tempo, channels >> ]_vars

\* C5 witness: stopped with the cursor past step 0 and an issued voice whose
\* start lies later than the clock
C5_Witness ==
    /\ runs >= 1 /\ ~isPlaying /\ currentStep # 0
    /\ \E j \in 1..Len(issued) :
          /\ issued[j].voice.kind # "none"
          /\ Lt(Num(now), issued[j].voice.start)


\* the events emitted last, preceded by the one emitted just before them
Chain == lastEvent \o emitted

\* a >= b on JavaScript numbers
Geq(a, b) == a.k # "nan" /\ b.k # "nan" /\ ~Lt(a, b)

\* every call made for a step event carries that event's timestamp, and so
\* does the start of the voice it issues
SameTimestamp ==
    \A j \in 1..Len(issued) :
        LET c == issued[j]
        IN  /\ \E m \in 1..Len(emitted) :
                  /\ emitted[m].run = c.run /\ emitted[m].k = c.ev
                  /\ emitted[m].step = c.step /\ emitted[m].time = c.time
            /\ c.voice.kind # "none" => c.voice.start = c.time

FlagsOf(i) == {s \in DOMAIN channels[i].steps : channels[i].steps[s]}

\* C6: emit(step, time) plays, for every channel, the step hit
\* playNote(time, 0.1, 60, 1.0) exactly when the channel's flag for the step is
\* set; so over each full loop a channel gets as many hits as it has set flags,
\* and with flags {0,4,8,12} consecutive hits are 4 step durations = 60/tempo
\* apart.
C6_StepHits ==
    rackStable =>
        /\ (emitted # << >> /\ Last(emitted).run = runs) =>
              \A m \in 1..Len(emitted), i \in DOMAIN channels :
                  LET IsHit(c) == c.ch = i /\ c.src = "step" /\ c.ev = emitted[m].k
                      got == SelectSeq(issued, IsHit)
                  IN  /\ Len(got) = IF emitted[m].step \in FlagsOf(i) THEN 1 ELSE 0
                      /\ \A j \in 1..Len(got) :
                            /\ got[j].time = emitted[m].time
                            /\ got[j].duration = Num(TicksPerSec \div 10)
                            /\ got[j].pitch = 60
                            /\ got[j].velocity = VelScale
        /\ \A i \in DOMAIN channels :
              hits[i] = (runCount \div StepCount) * Cardinality(FlagsOf(i))
                        + Cardinality({s \in FlagsOf(i) : s < runCount % StepCount})
        /\ \A i \in DOMAIN channels :
              (runFixed /\ Positive(tempo) /\ FlagsOf(i) = {0, 4, 8, 12}
               /\ Len(hitTimes[i]) = 2) =>
                  /\ hitTimes[i][2].v - hitTimes[i][1].v = 4 * StepDur(tempo).v
                  /\ hitTimes[i][2].v - hitTimes[i][1].v = (60 * TicksPerSec) \div tempo.v

\* C6 witness: the kick has flags {0,4,8,12} and a whole loop of 16 steps has
\* been emitted, with 4 hits
C6_Witness ==
    /\ rackStable /\ runFixed /\ FlagsOf(1) = {0, 4, 8, 12}
    /\ runCount = StepCount /\ hits[1] = 4 /\ Len(hitTimes[1]) = 2

\* the piano-roll calls of `issued`, each with the notes it can stem from
RollCallsMatch(factor) ==
    \A j \in 1..Len(issued) :
        LET c == issued[j]
        IN  c.src = "roll" =>
              \E m \in 1..Len(emitted), n \in 1..Len(channels[c.ch].pianoRollNotes) :
                  LET e == emitted[m]
                      note == channels[c.ch].pianoRollNotes[n]
                  IN  /\ e.run = c.run /\ e.k = c.ev
                      /\ c.pitch = note.pitch /\ c.velocity = note.velocity
                      /\ c.duration = Scale(factor * note.duration, StepDur(e.tempo))
                      /\ c.voice.kind = "synth" =>
                            c.voice.releaseAt = Add(c.time, c.duration)

\* C7 as claimed: a piano-roll note is played with duration
\* note.duration * stepDuration * 4, stepDuration the scheduler's advance
\* 0.25 * 60 / tempo, and with its own pitch and velocity.
C7_QuarterDuration == rollStable => RollCallsMatch(4)

\* C7 as amended: a piano-roll note is played with duration
\* note.duration * stepDuration, stepDuration the scheduler's advance
\* 0.25 * 60 / tempo (note durations count sixteenth steps), and with its own
\* pitch and velocity.
C7_StepDuration == rollStable => RollCallsMatch(1)

\* C7 witness: a piano-roll note has been played on the synth channel at the
\* fast tempo
C7_Witness ==
    /\ rollStable /\ tempo = Num(600)
    /\ \E j \in 1..Len(issued) :
          issued[j].src = "roll" /\ issued[j].voice.kind = "synth"

\* C8: in emit(step, time) a piano-roll note is scheduled exactly when its
\* start equals step (within 0.01), whatever the step flags; so over each full
\* loop every note placed in the piano roll is scheduled exactly once.
C8_EveryNoteOncePerLoop ==
    rollStable =>
        /\ (emitted # << >> /\ Last(emitted).run = runs) =>
              \A m \in 1..Len(emitted), i \in DOMAIN channels :
                  LET IsRoll(c) == c.ch = i /\ c.src = "roll" /\ c.ev = emitted[m].k
                      Due(n) == Abs(n.start - emitted[m].step) * 100 < 1
                  IN  Len(SelectSeq(issued, IsRoll))
                        = Len(SelectSeq(channels[i].pianoRollNotes, Due))
        /\ (runCount > 0 /\ runCount % StepCount = 0) =>
              \A i \in DOMAIN channels :
                  rollHits[i] = (runCount \div StepCount) * Len(channels[i].pianoRollNotes)

\* the calls observed, of the scheduler and of MIDI input
AllIssued == issued \o midiIssued

\* C9: on a sampler channel with a buffer, playNote(time, _, pitch, _) issues a
\* voice of rate 2^((offset + pitch - 60) / 12) starting at time and stopping at
\* time + bufferDuration / rate: pitch 60 gives rate exactly 1, pitch 72 rate
\* exactly 2 (a 0.5 s buffer then stops 0.25 s after time), and the duration
\* argument has no influence.
C9_SamplerVoice ==
    \A j \in 1..Len(AllIssued) :
        LET c == AllIssued[j]
            ch == channels[c.ch]
            v == c.voice
        IN  (ch.type = "sampler" /\ ch.buffer # 0) =>
              /\ v.kind = "sampler"
              /\ v.start = c.time
              /\ v.rate = PowSemitones(ch.pitch + c.pitch - 60)
              /\ v.stop = Add(c.time, Num((ch.buffer * RateScale) \div v.rate))
              /\ (ch.pitch = 0 /\ c.pitch = 60) => v.rate = RateScale
              /\ (ch.pitch = 0 /\ c.pitch = 72) => v.rate = 2 * RateScale
              /\ (ch.pitch = 0 /\ c.pitch = 72 /\ 2 * ch.buffer = TicksPerSec) =>
                    v.stop = Add(c.time, Num(TicksPerSec \div 4))
              /\ \A d \in {0, TicksPerSec \div 10, TicksPerSec} :
                    PlayNote(ch, mixerTracks, c.time, Num(d), c.pitch, c.velocity) = v

\* C9 witness: a 0.5 s sampler was played at pitch 72 by a MIDI note of 0.5 s
C9_Witness ==
    \E j \in 1..Len(midiIssued) :
        /\ channels[midiIssued[j].ch].type = "sampler"
        /\ 2 * channels[midiIssued[j].ch].buffer = TicksPerSec
        /\ midiIssued[j].pitch = 72
        /\ midiIssued[j].voice.rate = 2 * RateScale
        /\ midiIssued[j].time.v > 0

\* C10: playNote on a sampler channel without a buffer raises a ResourceError
\* to the error sink and issues no voice.
C10_MissingBufferRaises ==
    \A j \in 1..Len(AllIssued) :
        LET c == AllIssued[j]
        IN  (channels[c.ch].type = "sampler" /\ channels[c.ch].buffer = 0) =>
              /\ c.voice.kind = "none"
              /\ c.voice.error = "ResourceError"

\* C11: the tempo the scheduler uses is a positive number in every reachable
\* state: a tempo edit to a value <= 0 or to a non-numeric text is rejected
\* (ConfigurationError) and leaves the tempo as it was.
C11_TempoPositive == Positive(tempo)

\* the last logged edit, and whether the last two clicked the same cell
LastEdit == Last(editLog)
SameCellTwice(op) ==
    /\ Len(editLog) = 2
    /\ editLog[1].op = op /\ editLog[2].op = op
    /\ editLog[1].ch = editLog[2].ch
    /\ editLog[1].cell = editLog[2].cell

AllSteps == 0..(StepCount - 1)

\* C12: a step click on (channel i, step s) inverts that flag and nothing
\* else: no other flag of the channel, no flag of another channel, no
\* piano-roll note; two clicks on the same cell restore the pattern.
C12_StepToggleInverse ==
    /\ \A i \in DOMAIN channels, s \in AllSteps :
          LET once == StepClick(channels, i, s)
          IN  /\ StepClick(once, i, s) = channels
              /\ once[i].steps[s] = ~channels[i].steps[s]
              /\ [once EXCEPT ![i].steps[s] = channels[i].steps[s]] = channels
    /\ (editLog # << >> /\ LastEdit.op = "step") =>
          LET before == LastEdit.before
              i == LastEdit.ch
              s == LastEdit.cell[1]
          IN  /\ DOMAIN channels = DOMAIN before
              /\ \A j \in DOMAIN channels :
                    /\ channels[j].pianoRollNotes = before[j].pianoRollNotes
                    /\ DOMAIN channels[j].steps = DOMAIN before[j].steps
                    /\ \A t \in DOMAIN channels[j].steps :
                          channels[j].steps[t] =
                              IF j = i /\ t = s THEN ~before[j].steps[t]
                              ELSE before[j].steps[t]
    /\ SameCellTwice("step") => channels = editLog[1].before

\* C12 witness: a set flag was clicked off and on again, on a channel that
\* holds a piano-roll note
C12_Witness ==
    /\ SameCellTwice("step")
    /\ editLog[1].before[LastEdit.ch].steps[LastEdit.cell[1]]
    /\ ~editLog[2].before[LastEdit.ch].steps[LastEdit.cell[1]]
    /\ channels[LastEdit.ch].steps[LastEdit.cell[1]]
    /\ channels[LastEdit.ch].pianoRollNotes # << >>

\* the notes of a list, as a set
NoteSet(notes) == {notes[j] : j \in DOMAIN notes}
\* a note sits in cell (step, pitch)
InCell(n, step, pitch) == n.pitch = pitch /\ n.start = step
\* the note a click inserts
NewNote(step, pitch) ==
    [start |-> step, duration |-> 1, pitch |-> pitch, velocity |-> VelScale]

\* before -> after is one toggle of cell (step, pitch): the note in the cell is
\* removed if there is one, else a note of duration 1 and full velocity is
\* inserted; notes in other cells stay
OneToggle(before, after, step, pitch) ==
    /\ {n \in NoteSet(after) : ~InCell(n, step, pitch)}
         = {n \in NoteSet(before) : ~InCell(n, step, pitch)}
    /\ IF \E n \in NoteSet(before) : InCell(n, step, pitch)
       THEN /\ Len(after) = Len(before) - 1
            /\ ~\E n \in NoteSet(after) : InCell(n, step, pitch)
       ELSE after = Append(before, NewNote(step, pitch))

InsertTracks == 1..(TrackCount - 1)

\* C14: every channel ever created (default, added, imported) has a
\* targetMixerTrack in 1..16, the index of an existing mixer track and never
\* the master's 0; so every voice playNote issues feeds the input of that
\* track, and the fallback to the master output is never taken.
C14_TargetInsertTrack ==
    /\ \A i \in DOMAIN channels :
          LET t == channels[i].targetMixerTrack
          IN  /\ t \in InsertTracks
              /\ t # 0
              /\ t + 1 \in DOMAIN mixerTracks
              /\ mixerTracks[t + 1].index = t
    /\ \A j \in 1..Len(AllIssued) :
          LET c == AllIssued[j]
          IN  c.voice.kind # "none" =>
                /\ c.voice.dest = channels[c.ch].targetMixerTrack
                /\ c.voice.dest \in InsertTracks

\* C14 witness: with more channels than insert tracks, one of them imported,
\* the seventeenth channel has played a step hit and a MIDI note into track 1
C14_Witness ==
    /\ Len(channels) > TrackCount - 1
    /\ Imported(channels) # {}
    /\ \E j \in 1..Len(issued), m \in 1..Len(midiIssued) :
          /\ issued[j].ch = TrackCount /\ issued[j].voice.dest = 1
          /\ midiIssued[m].ch = TrackCount /\ midiIssued[m].voice.dest = 1

\* the track a track's output reaches after n hops, -1 being the master bus
\* DAW.masterGain that feeds the final output
RECURSIVE Reaches(_, _)
Reaches(pos, n) ==
    IF pos = -1 \/ n = 0 THEN pos
    ELSE IF pos + 1 \in DOMAIN mixerTracks THEN Reaches(mixerTracks[pos + 1].output, n - 1)
    ELSE pos

\* C15: after initialisation and ever after, exactly one mixer track has index
\* 0, the master, and it feeds the final output; every other track (1..16)
\* feeds the master track's input; the routing graph has no cycle.
C15_RoutingTree ==
    /\ Len(mixerTracks) = TrackCount
    /\ Cardinality({p \in DOMAIN mixerTracks : mixerTracks[p].index = 0}) = 1
    /\ mixerTracks[1].index = 0
    /\ mixerTracks[1].output = -1
    /\ \A p \in DOMAIN mixerTracks :
          /\ mixerTracks[p].index = p - 1
          /\ p > 1 => mixerTracks[p].output = 0
          /\ Reaches(p - 1, Len(mixerTracks)) = -1

\* C15 witness: the faders of the master and of an insert track have been
\* moved and a voice has been issued into an insert track
C15_Witness ==
    /\ mixerTracks[1].volume # 80
    /\ \E p \in DOMAIN mixerTracks : p > 1 /\ mixerTracks[p].volume # 80
    /\ \E j \in 1..Len(issued) :
          issued[j].voice.kind # "none" /\ issued[j].voice.dest >= 1

\* a track as a meter frame may find it: never moved, or gain and stored
\* volume equal
Together(track) ==
    \/ track.gain = track.volume
    \/ track.volume = MixerTrack(track.index, << >>).volume
         /\ track.gain = MixerTrack(track.index, << >>).gain

\* C16: setVolume(v) writes the gain stage and the stored volume together:
\* after it both are v, the volume and gain of every other track are as
\* before, and no meter frame finds a track with one written and not the other.
C16_SetVolumeTogether ==
    [][ /\ (mixerTracks' # mixerTracks) =>
              /\ DOMAIN mixerTracks' = DOMAIN mixerTracks
              /\ \E p \in DOMAIN mixerTracks :
                    LET v == mixerTracks'[p].gain
                    IN  /\ v \in 0..100
                        /\ mixerTracks'[p].volume = v
                        /\ mixerTracks'[p] =
                              [mixerTracks[p] EXCEPT !.gain = v, !.volume = v]
                        /\ \A q \in DOMAIN mixerTracks :
                              q # p => mixerTracks'[q] = mixerTracks[q]
        /\ \A p \in DOMAIN metered' : Together(metered'[p])
      ]_vars

\* C16 witness: while playing, a meter frame has found one fader moved to 50
\* and another untouched, and a fader has been moved since
C16_Witness ==
    /\ isPlaying
    /\ metered # << >>
    /\ metered # mixerTracks
    /\ \E p, q \in DOMAIN metered :
          /\ metered[p].gain = 50 /\ metered[p].volume = 50
          /\ metered[q].volume = 80 /\ metered[q].gain = 100

\* C17: no scheduler call blocks: for every tempo that can be entered in the
\* tempo field and every clock value, the look-ahead loop exits after
\* emitting finitely many events.
C17_SchedulerTerminates == ~hung

\* the synth voices among the calls observed
SynthCalls ==
    LET IsSynth(c) == c.voice.kind = "synth" IN SelectSeq(AllIssued, IsSynth)

\* a <= b on JavaScript numbers
Leq(a, b) == a.k # "nan" /\ b.k # "nan" /\ ~Lt(b, a)

\* C18: every synth voice, whoever issued it (step hit of 0.1 s, piano-roll
\* note at any tempo, MIDI note), has its envelope commands in stage order:
\* attack end (time + 0.01) <= decay end (time + 0.11) <= start of release
\* (time + duration) < release end (time + duration + 0.2) < hard stop
\* (time + duration + 0.3).
C18_EnvelopeOrder ==
    \A j \in 1..Len(SynthCalls) :
        LET c == SynthCalls[j]
            v == c.voice
        IN  /\ v.attackEnd = Add(c.time, Num(TicksPerSec \div 100))
            /\ v.decayEnd = Add(c.time, Num(11 * (TicksPerSec \div 100)))
            /\ v.releaseAt = Add(c.time, c.duration)
            /\ Leq(v.attackEnd, v.decayEnd)
            /\ Leq(v.decayEnd, v.releaseAt)
            /\ Lt(v.releaseAt, v.releaseEnd)
            /\ Lt(v.releaseEnd, v.stop)

\* C19: between callbacks at most one scheduler timer is pending, and one is
\* pending exactly when the transport is Playing; a Start while Playing begins
\* no run (it leaves the cursor and the timer alone and emits nothing), so
\* Starts and Stops in any order never leave two tick chains running.
C19_SingleTimerChain ==
    /\ [](~hung => /\ timers <= 1
                   /\ timers = 1 <=> isPlaying
                   /\ timerID <=> isPlaying)
    /\ [][ isPlaying =>
              /\ runs' = runs
              /\ runStart' = runStart
              /\ runCount' >= runCount ]_vars

\* C19 witness: after Start, Stop and Start again, with ticks in both runs,
\* one timer is pending
C19_Witness ==
    /\ runs = 2 /\ isPlaying /\ ~hung /\ timers = 1 /\ timerID
    /\ runCount > 1
    /\ lastEvent # << >> /\ lastEvent[1].run = 2
    /\ now > runStart /\ runStart > 0

\* the events emitted last lie inside the look-ahead window of their call
BelowWindow ==
    \A j \in 1..Len(emitted) :
        Positive(emitted[j].tempo) =>
            Lt(emitted[j].time, Num(emitted[j].at + ScheduleAheadTime))

\* after a scheduler call of a run at positive tempo, before the clock moves
\* on, nextNoteTime is at or beyond the end of the window
CursorBeyondWindow ==
    (runs >= 1 /\ ~hung /\ runPositive /\ idle = 0) =>
        Geq(nextNoteTime, Num(now + ScheduleAheadTime))

\* C20 as claimed: with a positive tempo every event a scheduler call emits
\* has a timestamp below clock + 0.1 s and not below the clock at emission, and
\* when the call returns nextNoteTime >= clock + 0.1 s, whatever the delay
\* between ticks.
C20_WindowAnyDelay ==
    /\ BelowWindow
    /\ \A j \in 1..Len(emitted) :
          Positive(emitted[j].tempo) => Geq(emitted[j].time, Num(emitted[j].at))
    /\ CursorBeyondWindow

\* C20 as amended: with a positive tempo every event a scheduler call emits
\* has a timestamp below clock + 0.1 s; it is not below the clock at emission
\* when the call is Start's or comes at most scheduleAheadTime (0.1 s) after
\* the scheduler call before it; and when the call returns nextNoteTime >=
\* clock + 0.1 s.
C20_WindowTimelyTick ==
    /\ BelowWindow
    /\ \A j \in 1..Len(emitted) :
          (/\ Positive(emitted[j].tempo)
           /\ emitted[1].k = 0 \/ emitted[j].idle <= ScheduleAheadTime) =>
              Geq(emitted[j].time, Num(emitted[j].at))
    /\ CursorBeyondWindow

\* C20 witness: at the fast tempo, entered while playing, a tick that came a
\* whole window after the call before it has emitted several events, none of
\* them below the clock
C20_Witness ==
    /\ isPlaying /\ runPositive /\ ~runFixed /\ idle = 0
    /\ Len(emitted) >= 2 /\ emitted[1].k > 0
    /\ emitted[1].idle = ScheduleAheadTime
    /\ emitted[1].at = now /\ now > 0
    /\ Geq(emitted[1].time, Num(now))

\* C21: in every state, from construction onward and after any setVolume
\* calls, the stored volume of each mixer track equals the gain of its gain
\* stage.
C21_VolumeIsGain ==
    \A p \in DOMAIN mixerTracks : mixerTracks[p].volume = mixerTracks[p].gain

\* the sampler channels of a channel list that have no buffer
Unassigned(chs) == {i \in DOMAIN chs : chs[i].type = "sampler" /\ chs[i].buffer = 0}

\* a step in which the decode of a dropped file ends in failure
DecodeFails == Len(decoded') > Len(decoded) /\ ~Last(decoded')

\* C22: under any interleaving of scheduler calls with add-channel and sample
\* import, whenever no promise reaction is queued every sampler channel has
\* its buffer;
\* a scheduler call that iterates over the channels finds no sampler channel
\* without buffer, and no playNote call it issues falls silent on an imported
\* channel; a failed decode adds no channel and changes no channel.
C22_ImportBeforeTick ==
    /\ [](microtasks = << >> => Unassigned(channels) = {})
    /\ [](\A j \in 1..Len(issued) :
             issued[j].ch \in Imported(channels) => issued[j].voice.kind # "none")
    /\ [][ /\ (emitted' # emitted) => Unassigned(channels) = {}
           /\ DecodeFails => channels' = channels /\ microtasks' = microtasks
         ]_vars

\* C22 witness: while playing, a timer tick has played an imported sampler
\* channel with its decoded buffer
C22_Witness ==
    /\ isPlaying /\ microtasks = << >>
    /\ emitted # << >> /\ emitted[1].k > 0
    /\ \E j \in 1..Len(issued) :
          /\ issued[j].ch \in Imported(channels)
          /\ issued[j].voice.kind = "sampler"
          /\ channels[issued[j].ch].buffer = TicksPerSec \div 2

====
